---- MODULE Spec2Model ----
(***************************************************************************)
(* Bar-by-bar backtest simulation of the trading dashboard.                *)
(*                                                                         *)
(* Two simulators of the repository are modelled:                          *)
(*   - BacktestEngine.run          (src/backtesting/backtest_engine.py)    *)
(*   - MovingAverageCrossoverStrategy.backtest / RSIStrategy.backtest      *)
(*                                  (src/core/strategy.py, same loop)      *)
(*                                                                         *)
(* Python floats are modelled as exact rationals [n |-> Int, d |-> Nat],   *)
(* kept in lowest terms, so that the accounting identities are checked     *)
(* exactly.  Timestamps are the row positions 0 .. n-1 of the table.       *)
(***************************************************************************)
EXTENDS Integers, Sequences, FiniteSets, TLC

(***************************************************************************)
(* Bounds of the model                                                     *)
(***************************************************************************)
\* longest price table handed to a run
MaxBars == 4

(***************************************************************************)
(* Exact rational arithmetic standing in for float arithmetic              *)
(***************************************************************************)
Abs(x) == IF x < 0 THEN -x ELSE x

RECURSIVE GCD(_, _)
GCD(a, b) == IF b = 0 THEN a ELSE GCD(b, a % b)

\* the rational num/den in lowest terms with a positive denominator
Rat(num, den) ==
    LET s == IF den < 0 THEN -1 ELSE 1
        g == GCD(Abs(num), Abs(den))
    IN  [n |-> (s * num) \div g, d |-> (s * den) \div g]

R(k) == [n |-> k, d |-> 1]

RMul(a, b) ==
    LET g1 == GCD(Abs(a.n), b.d)
        g2 == GCD(Abs(b.n), a.d)
    IN  Rat((a.n \div g1) * (b.n \div g2), (a.d \div g2) * (b.d \div g1))

RDiv(a, b) == RMul(a, Rat(b.d, b.n))

RAdd(a, b) ==
    LET g == GCD(a.d, b.d)
    IN  Rat(a.n * (b.d \div g) + b.n * (a.d \div g), (a.d \div g) * b.d)

RNeg(a) == [n |-> -a.n, d |-> a.d]

RSub(a, b) == RAdd(a, RNeg(b))

RLeq(a, b) ==
    LET g == GCD(a.d, b.d)
    IN  a.n * (b.d \div g) <= b.n * (a.d \div g)

RLt(a, b) ==
    LET g == GCD(a.d, b.d)
    IN  a.n * (b.d \div g) < b.n * (a.d \div g)

(***************************************************************************)
(* Inputs: the price table and the strategy object                         *)
(***************************************************************************)
\* price levels a bar can take
Prices == {90, 100, 108, 112}

\* one OHLC row; Low <= Close <= High as delivered by the data sources
Bars == {b \in [Low : Prices, Close : Prices, High : Prices] :
            b.Low <= b.Close /\ b.Close <= b.High}

\* the Signal column: 1 buy, -1 sell, 0 hold
Signals == {-1, 0, 1}

\* Python's None
None == [kind |-> "None"]
IsNum(x) == DOMAIN x = {"n", "d"}

\* the nan of a rolling mean over a window that is not yet full
NaN == [kind |-> "NaN"]

\* what the strategy object passed to BacktestEngine.run offers for the
\* optional hooks calculate_stop_loss / calculate_take_profit:
\*   "base"   the defaults of strategy_base.Strategy (95% / 110% of Close)
\*   "absent" the object has no such methods (hasattr is false)
\*   "atr"    the ATR levels of the example strategies, nan while fewer
\*            than 14 rows precede the entry
Hooks == {"base", "absent"}

\* BacktestEngine(initial_capital, commission)
initial_capital == R(100)
commission == Rat(1, 10)


(***************************************************************************)
(* State                                                                   *)
(***************************************************************************)
VARIABLES
    n,              \* len(data): number of rows of the table of this run
    wellFormed,     \* the table has the price column the simulator reads
    hooks,          \* stop/take hooks of the strategy object (engine runs)
    i,              \* loop index of the bar loop
    bar,            \* data.iloc[i]: the row being processed (row 0 at start)
    signal,         \* data['Signal'].iloc[i]
    pc,             \* position of BacktestEngine.run
    capital,        \* BacktestEngine.capital
    position,       \* BacktestEngine.position (shares held)
    trades,         \* BacktestEngine.trades
    current_trade,  \* BacktestEngine.current_trade
    equity,         \* local array equity of BacktestEngine.run
    results,        \* dict returned by BacktestEngine.run
    bt_pc,          \* position of Strategy.backtest
    bt_capital,     \* local capital of Strategy.backtest
    bt_position,    \* local position of Strategy.backtest (1, 0, -1)
    entry_price,    \* locals of Strategy.backtest
    entry_date,
    stop_loss,
    take_profit,
    bt_trades,      \* local list trades of Strategy.backtest
    equity_curve,   \* local list equity_curve of Strategy.backtest
    self_trades,    \* Strategy.trades
    bt_results,     \* dict returned by Strategy.backtest
    df,             \* the caller's table: column -> what the column holds
    data,           \* the table the run works on (data / signals_df)
    engine,         \* a BacktestEngine object that serves several run calls
    lists,          \* the list objects that engine.trades was ever bound to
    calls,          \* the activations of BacktestEngine.run on that object
    curve,          \* the equity_curve argument of the metric functions
    engine_metrics, \* BacktestEngine._calculate_performance_metrics(curve)
    strategy_metrics, \* Strategy._calculate_performance_metrics(curve)
    strategy,       \* a core Strategy object: parameters, trades, performance_metrics
    bt,             \* the activation of Strategy.backtest on that object
    caller_set,     \* what the object's user last passed to set_parameter
    opt,            \* the activation of strategy_base.Strategy.optimize
    files,          \* the cache directory: file name -> content and mtime
    now,            \* the clock read by is_cache_valid
    last            \* the last call on the CacheManager and what it returned

inputVars == <<n, wellFormed, hooks, i, bar, signal>>
engineVars == <<pc, capital, position, trades, current_trade, equity, results>>
strategyVars == <<bt_pc, bt_capital, bt_position, entry_price, entry_date,
                  stop_loss, take_profit, bt_trades, equity_curve,
                  self_trades, bt_results>>
tableVars == <<df, data>>
objectVars == <<engine, lists, calls>>
analyzerVars == <<curve, engine_metrics, strategy_metrics>>
strategyObjVars == <<strategy, bt, caller_set>>
optimizeVars == <<opt>>
cacheVars == <<files, now, last>>
moreVars == <<strategyObjVars, optimizeVars, cacheVars>>
restVars == <<objectVars, analyzerVars, moreVars>>
runVars == <<inputVars, engineVars, strategyVars, tableVars, objectVars, analyzerVars>>
vars == <<runVars, moreVars>>

Zero == R(0)
One == R(1)

(***************************************************************************)
(* BacktestEngine: pure parts of one loop iteration                        *)
(***************************************************************************)
\* strategy_base.Strategy.calculate_stop_loss, or None without the hook
calculate_stop_loss(hk, price) ==
    IF hk = "base" THEN RMul(R(price), Rat(95, 100))
    ELSE IF hk = "atr" THEN NaN ELSE None

\* strategy_base.Strategy.calculate_take_profit, or None without the hook
calculate_take_profit(hk, price) ==
    IF hk = "base" THEN RMul(R(price), Rat(110, 100))
    ELSE IF hk = "atr" THEN NaN ELSE None

\* variant: the share count leaves the commission out of the divisor
CalculatePositionSizeNoCommission(cap, price) ==
    RDiv(RMul(cap, Rat(95, 100)), R(price))

\* BacktestEngine._calculate_position_size
CalculatePositionSize(cap, price) ==
    RDiv(RMul(cap, Rat(95, 100)), RMul(R(price), RAdd(One, commission)))

\* cost of buying shares at price, commission added
EntryCost(shares, price) ==
    RMul(RMul(shares, price), RAdd(One, commission))

\* proceeds of selling shares at price, commission subtracted
Proceeds(shares, price) ==
    RMul(RMul(shares, price), RSub(One, commission))

\* variant: the entry test forgets `self.position == 0`
BuyCondNoFlatTest(sig, pos) == sig = 1

\* `signal == 1 and self.position == 0`
BuyCond(sig, pos) == sig = 1 /\ pos = Zero

\* `signal == -1 and self.position > 0`
SellCond(sig, pos) == sig = -1 /\ RLt(Zero, pos)

\* `self.position > 0 and self.current_trade`
ProtectCond(pos, trade) == RLt(Zero, pos) /\ trade # None

\* `stop_loss is not None and current_price <= stop_loss`
StopLossCond(trade, row) ==
    /\ trade.stop_loss # None
    /\ IsNum(trade.stop_loss)
    /\ RLeq(R(row.Close), trade.stop_loss)

\* `take_profit is not None and current_price >= take_profit`
TakeProfitCond(trade, row) ==
    /\ trade.take_profit # None
    /\ IsNum(trade.take_profit)
    /\ RLeq(trade.take_profit, R(row.Close))

\* variant: the stop-loss exit is booked at the bar's close
StopLossFillAtClose(trade, row) == R(row.Close)

\* price at which a stop-loss exit is filled and booked
StopLossFill(trade, row) == trade.stop_loss

\* price at which a take-profit exit is filled and booked
TakeProfitFill(trade, row) == trade.take_profit

\* price at which a sell-signal exit is filled and booked
SignalFill(trade, row) == R(row.Close)

\* the dict stored in self.current_trade on entry
OpenTrade(idx, price, shares, hk) ==
    [entry_date |-> idx, entry_price |-> R(price), shares |-> shares,
     type |-> "long",
     stop_loss |-> calculate_stop_loss(hk, price),
     take_profit |-> calculate_take_profit(hk, price)]

\* variant: profit leaves the entry commission out
ExitKeysGrossProfit(trade, idx, px, proceeds) ==
    ("exit_date" :> idx) @@ ("exit_price" :> px) @@
    ("profit" :> RSub(proceeds, RMul(trade.shares, trade.entry_price))) @@
    ("profit_pct" :> RSub(RDiv(px, trade.entry_price), One)) @@ trade

\* the exit keys written into the open trade by every exit branch
ExitKeys(trade, idx, px, proceeds) ==
    ("exit_date" :> idx) @@ ("exit_price" :> px) @@
    ("profit" :> RSub(proceeds, EntryCost(trade.shares, trade.entry_price))) @@
    ("profit_pct" :> RSub(RDiv(px, trade.entry_price), One)) @@ trade

\* the signal branch writes no exit_reason key; the protective ones do
WithReason(trade, reason) == ("exit_reason" :> reason) @@ trade

Ledger(cap, pos, tr, ct) ==
    [capital |-> cap, position |-> pos, trades |-> tr, current_trade |-> ct]

\* lines 80-97: open a long position
Buy(L, row, idx, hk) ==
    LET shares == CalculatePositionSize(L.capital, row.Close)
        cost == EntryCost(shares, R(row.Close))
    IN  Ledger(RSub(L.capital, cost), shares, L.trades,
               OpenTrade(idx, row.Close, shares, hk))

\* lines 102-116: close on a sell signal at the close
Sell(L, row, idx) ==
    LET px == SignalFill(L.current_trade, row)
        proceeds == Proceeds(L.position, px)
    IN  IF L.current_trade # None
        THEN Ledger(RAdd(L.capital, proceeds), Zero,
                    Append(L.trades, ExitKeys(L.current_trade, idx, px, proceeds)),
                    None)
        ELSE Ledger(RAdd(L.capital, proceeds), Zero, L.trades, L.current_trade)

\* lines 124-138 / 144-158: close on a protective level
Protect(L, idx, px, reason) ==
    LET proceeds == Proceeds(L.position, px)
    IN  Ledger(RAdd(L.capital, proceeds), Zero,
               Append(L.trades,
                      WithReason(ExitKeys(L.current_trade, idx, px, proceeds), reason)),
               None)

\* variant: the protective check runs first and a Buy signal is then tested
\* with a separate if, so a bar can close a position and open the next one
EngineStepProtectFirst(L, row, sig, idx, hk) ==
    LET P == IF ProtectCond(L.position, L.current_trade)
                    /\ StopLossCond(L.current_trade, row)
             THEN Protect(L, idx, StopLossFill(L.current_trade, row), "stop_loss")
             ELSE L
    IN  IF BuyCond(sig, P.position) THEN Buy(P, row, idx, hk)
        ELSE IF SellCond(sig, P.position) THEN Sell(P, row, idx)
        ELSE P

\* variant: every signal other than Buy closes an open position
EngineStepSellOnHold(L, row, sig, idx, hk) ==
    IF BuyCond(sig, L.position) THEN Buy(L, row, idx, hk)
    ELSE IF sig # 1 /\ RLt(Zero, L.position) THEN Sell(L, row, idx)
    ELSE L

\* lines 80-161: the if / elif chain of one iteration
EngineStep(L, row, sig, idx, hk) ==
    IF BuyCond(sig, L.position) THEN Buy(L, row, idx, hk)
    ELSE IF SellCond(sig, L.position) THEN Sell(L, row, idx)
    ELSE IF ProtectCond(L.position, L.current_trade)
         THEN IF StopLossCond(L.current_trade, row)
              THEN Protect(L, idx, StopLossFill(L.current_trade, row), "stop_loss")
              ELSE IF TakeProfitCond(L.current_trade, row)
                   THEN Protect(L, idx, TakeProfitFill(L.current_trade, row), "take_profit")
                   ELSE L
         ELSE L

\* variant: the equity point leaves out the value of the shares held
MarkToMarketCashOnly(cap, pos, row) == cap

\* line 164: equity[i] = self.capital + (self.position * current_price)
MarkToMarket(cap, pos, row) == RAdd(cap, RMul(pos, R(row.Close)))

\* the inf / nan that numpy returns for a division by 0.0
NonFinite == [kind |-> "NonFinite"]

\* one element of pct_change(): 0/0 is nan, x/0 is inf
Change(prev, cur) ==
    IF prev = Zero THEN (IF cur = Zero THEN NaN ELSE NonFinite)
    ELSE RSub(RDiv(cur, prev), One)

\* equity_curve.pct_change().dropna(): the nan of the first point and every
\* other nan are dropped
PctChange(eq) ==
    LET NotNaN(r) == r # NaN
    IN  SelectSeq([k \in 1..(Len(eq) - 1) |-> Change(eq[k], eq[k + 1])], NotNaN)

\* sum of a list of floats
RECURSIVE RSum(_)
RSum(seq) == IF seq = << >> THEN Zero ELSE RAdd(seq[1], RSum(Tail(seq)))

\* variant: the guard of the division is left out, so a std of 0 or nan
\* counts as positive
StdKindUnguarded(returns) == "positive"

\* returns.std() (sample standard deviation, ddof = 1): nan for fewer than
\* two values or an inf among them, 0 for equal values, positive otherwise
StdKind(returns) ==
    IF Len(returns) < 2 \/ \E k \in 1..Len(returns) : ~IsNum(returns[k]) THEN "nan"
    ELSE IF \A k \in 1..Len(returns) : returns[k] = returns[1] THEN "zero"
    ELSE "positive"

\* the float sqrt(252) * returns.mean() / returns.std() for a positive std,
\* kept as the term it is computed from
MeanOverStd(returns) == [kind |-> "MeanOverStd", returns |-> returns]

\* line 228: sqrt(252) * mean / std if std > 0 else 0
EngineSharpe(eq) ==
    LET returns == PctChange(eq)
    IN  IF StdKind(returns) = "positive" THEN MeanOverStd(returns) ELSE Zero

\* float('inf')
Infinity == [kind |-> "inf"]

\* t['profit'] for t in trades
Profits(tr) == [k \in 1..Len(tr) |-> tr[k].profit]

IsWin(profit) == RLt(Zero, profit)
IsEngineLoss(profit) == RLeq(profit, Zero)
IsStrategyLoss(profit) == RLt(profit, Zero)

RAbs(a) == IF RLt(a, Zero) THEN RNeg(a) ELSE a

\* lines 231-240: winners have profit > 0, losers profit <= 0
EngineProfitFactor(tr) ==
    LET winning_trades == SelectSeq(Profits(tr), IsWin)
        losing_trades == SelectSeq(Profits(tr), IsEngineLoss)
    IN  IF tr = << >> THEN Zero
        ELSE IF losing_trades # << >> /\ RSum(losing_trades) # Zero
        THEN RAbs(RDiv(RSum(winning_trades), RSum(losing_trades)))
        ELSE Infinity

\* lines 215-264 of _calculate_performance_metrics, for an engine
\* constructed with the initial capital c0
MetricsOf(c0, eq, tr) ==
    [final_capital |-> eq[Len(eq)],
     total_return |-> IF c0 = Zero THEN NonFinite
                      ELSE RSub(RDiv(eq[Len(eq)], c0), One),
     sharpe_ratio |-> EngineSharpe(eq),
     profit_factor |-> EngineProfitFactor(tr),
     num_trades |-> Len(tr)]

Metrics(eq, tr) == MetricsOf(initial_capital, eq, tr)

(***************************************************************************)
(* Strategy.backtest (core/strategy.py): pure parts of one loop iteration  *)
(***************************************************************************)
\* default parameters sl_pct = 2.0 and tp_pct = 4.0, divided by 100
sl_pct == Rat(2, 100)
tp_pct == Rat(4, 100)

\* the value of the not yet assigned local entry_date
Unbound == [kind |-> "Unbound"]

Locals(cap, pos, ep, ed, sl, tp, tr) ==
    [capital |-> cap, position |-> pos, entry_price |-> ep, entry_date |-> ed,
     stop_loss |-> sl, take_profit |-> tp, trades |-> tr]

\* the dict appended to trades by every exit of Strategy.backtest
BtTrade(S, idx, px, type, profit, reason) ==
    [entry_date |-> S.entry_date, entry_price |-> S.entry_price,
     exit_date |-> idx, exit_price |-> px, type |-> type,
     profit |-> profit, exit_reason |-> reason]

\* `profit = (exit / entry - 1) * capital` of the long exits
LongProfit(S, px) == RMul(RSub(RDiv(px, S.entry_price), One), S.capital)

\* `profit = (entry / exit - 1) * capital` of the short exits
ShortProfit(S, px) == RMul(RSub(RDiv(S.entry_price, px), One), S.capital)

\* one exit of Strategy.backtest: book the profit, append the trade
BtExit(S, idx, px, type, reason, flat) ==
    LET profit == IF type = "long" THEN LongProfit(S, px) ELSE ShortProfit(S, px)
    IN  [S EXCEPT !.capital = RAdd(S.capital, profit),
                  !.trades = Append(S.trades, BtTrade(S, idx, px, type, profit, reason)),
                  !.position = IF flat THEN 0 ELSE S.position]

\* lines 307-362: stop-loss / take-profit check of an open position
BtCheckExit(S, row, idx) ==
    LET price == R(row.Close)
    IN  IF S.position = 1
        THEN IF RLeq(price, S.stop_loss)
             THEN BtExit(S, idx, S.stop_loss, "long", "stop_loss", TRUE)
             ELSE IF RLeq(S.take_profit, price)
                  THEN BtExit(S, idx, S.take_profit, "long", "take_profit", TRUE)
                  ELSE S
        ELSE IF S.position = -1
        THEN IF RLeq(S.stop_loss, price)
             THEN BtExit(S, idx, S.stop_loss, "short", "stop_loss", TRUE)
             ELSE IF RLeq(price, S.take_profit)
                  THEN BtExit(S, idx, S.take_profit, "short", "take_profit", TRUE)
                  ELSE S
        ELSE S

\* `position == 0 and current_signal != 0`
BtEntryCond(pos, sig) == pos = 0 /\ sig # 0

\* lines 365-377: open a long position on 1, a short position on -1, with
\* the stop and target distances sl and tp read from the parameters
BtCheckEntryWith(S, row, sig, idx, sl, tp) ==
    LET price == R(row.Close)
    IN  IF BtEntryCond(S.position, sig)
        THEN IF sig = 1
             THEN [S EXCEPT !.position = 1, !.entry_price = price,
                            !.entry_date = idx,
                            !.stop_loss = RMul(price, RSub(One, sl)),
                            !.take_profit = RMul(price, RAdd(One, tp))]
             ELSE [S EXCEPT !.position = -1, !.entry_price = price,
                            !.entry_date = idx,
                            !.stop_loss = RMul(price, RAdd(One, sl)),
                            !.take_profit = RMul(price, RSub(One, tp))]
        ELSE S

\* the same with the default parameters
BtCheckEntry(S, row, sig, idx) == BtCheckEntryWith(S, row, sig, idx, sl_pct, tp_pct)

\* lines 380-385: the equity point of one iteration
BtEquity(S, row) ==
    IF S.position = 1
    THEN RMul(S.capital, RDiv(R(row.Close), S.entry_price))
    ELSE IF S.position = -1
    THEN RMul(S.capital, RSub(R(2), RDiv(R(row.Close), S.entry_price)))
    ELSE S.capital

\* lines 389-417: close what is still open after the loop, at the last close
BtForceClose(S, row, idx) ==
    IF S.position = 1
    THEN BtExit(S, idx, R(row.Close), "long", "end_of_backtest", FALSE)
    ELSE IF S.position = -1
    THEN BtExit(S, idx, R(row.Close), "short", "end_of_backtest", FALSE)
    ELSE S

\* lines 435-448: the result returned by the except branch
Fallback == [trades |-> << >>, equity_curve |-> <<initial_capital>>]

(***************************************************************************)
(* Tables: the caller's DataFrame and the table a run works on             *)
(***************************************************************************)
\* the columns of a price table as the data sources deliver it
BaseColumns == {"Open", "High", "Low", "Close", "Volume"}

\* the caller's table, column -> content; a malformed one lacks the price
\* column the simulator reads
InputTable(wf) ==
    [c \in (IF wf THEN BaseColumns ELSE BaseColumns \ {"Close"}) |-> "input"]

\* a reference to a table object: `shared` says it is the caller's own object
Ref(shared, cols) == [shared |-> shared, columns |-> cols]

\* variant: no copy is taken, the run keeps working on the caller's object
DataAlias(t) == t

\* DataFrame.copy()
DataCopy(t) == Ref(FALSE, t.columns)

\* t[col] = ... : the column is written into the object t refers to
SetItem(t, col) == Ref(t.shared, (col :> "computed") @@ t.columns)

\* what strategy.generate_signals(data) hands to the engine
SignalKinds == {"Series", "DataFrame"}

\* example_strategies.MovingAverageCrossover.generate_signals
GenerateSignalsFrame(t) ==
    SetItem(SetItem(SetItem(SetItem(DataCopy(t), "SMA_Short"), "SMA_Long"),
                    "Signal"), "Position")

\* backtest_engine.py lines 59-63: a Series goes into a copy of the table,
\* a table replaces the local name
CombineSignals(kind, t) ==
    IF kind = "Series" THEN SetItem(DataCopy(t), "Signal")
                       ELSE GenerateSignalsFrame(t)

\* core/strategy.py MovingAverageCrossoverStrategy.generate_signals: the
\* except branch hands back df itself
BtGenerateSignals(t, wf) ==
    IF wf
    THEN SetItem(SetItem(SetItem(SetItem(DataCopy(t), "fast_ma"), "slow_ma"),
                         "signal"), "position")
    ELSE t

\* the caller's object after the writes through the reference work
CallerAfter(caller, work) ==
    IF work.shared THEN work.columns ELSE caller.columns

(***************************************************************************)
(* Initial state: a constructed BacktestEngine and a constructed Strategy  *)
(***************************************************************************)
\* the run calls made on the one engine object, numbered as they are made
Calls == {1, 2}

\* longest table of those calls
MaxCallBars == 3

\* rows of those tables: bars that open, close, peak and bottom at one level
CallPrices == {90, 100}
CallBars == {b \in Bars : b.Close \in CallPrices /\ b.Low = b.Close /\ b.High = b.Close}

\* the strategy object passed to those calls has the hooks of the base class
CallHooks == {"base"}

\* values the constructor accepts for initial_capital
InitialCapitals == {RNeg(initial_capital), Zero, initial_capital}

\* variant: reset empties the list object in place (self.trades.clear())
ResetClearsInPlace(E, H) ==
    [engine |-> [E EXCEPT !.capital = E.initial_capital, !.position = Zero,
                          !.current_trade = None],
     lists |-> [H EXCEPT ![E.trades] = << >>]]

\* variant: reset leaves self.capital as the last run left it
ResetKeepsCapital(E, H) ==
    [engine |-> [E EXCEPT !.position = Zero, !.trades = Len(H) + 1,
                          !.current_trade = None],
     lists |-> Append(H, << >>)]

\* BacktestEngine.reset: self.trades is bound to a new list object
Reset(E, H) ==
    [engine |-> [E EXCEPT !.capital = E.initial_capital, !.position = Zero,
                          !.trades = Len(H) + 1, !.current_trade = None],
     lists |-> Append(H, << >>)]

\* BacktestEngine.__init__(c0): the fields, then the first reset()
NewEngine(c0) ==
    [engine |-> [initial_capital |-> c0, capital |-> c0, position |-> Zero,
                 trades |-> 1, current_trade |-> None],
     lists |-> << << >> >>]

\* a run call that has not been made yet
IdleCall == [pc |-> "idle", n |-> 0, hooks |-> "absent", verbose |-> FALSE,
             i |-> 0, data |-> << >>, equity |-> << >>, results |-> None]

InitObjectWith(c0) ==
    /\ engine = NewEngine(c0).engine
    /\ lists = NewEngine(c0).lists
    /\ calls = [c \in Calls |-> IdleCall]

InitObject == InitObjectWith(initial_capital)

InitAnalyzer == curve = << >> /\ engine_metrics = None /\ strategy_metrics = None

\* MovingAverageCrossoverStrategy.__init__: the default parameters
DefaultParameters ==
    [fast_ma |-> R(20), slow_ma |-> R(50), sl_pct |-> R(2), tp_pct |-> R(4)]

\* the empty dict {}
EmptyDict == << >>

\* Strategy.__init__ (core/strategy.py lines 36-41)
NewStrategy ==
    [parameters |-> DefaultParameters, trades |-> << >>,
     performance_metrics |-> EmptyDict]

\* a backtest call that has not been made yet; made counts the calls begun
IdleBt == [pc |-> "idle", made |-> 0, results |-> None]

InitStrategyObject ==
    /\ strategy = NewStrategy
    /\ bt = IdleBt
    /\ caller_set = [name \in {} |-> None]

InitOptimize == opt = [pc |-> "idle"]

\* CacheManager.__init__: the cache directory exists, here without files
InitCache == files = << >> /\ now = 0 /\ last = None

InitMore == InitStrategyObject /\ InitOptimize /\ InitCache

InitRun ==
    /\ n = 0 /\ wellFormed = TRUE /\ hooks = "absent"
    /\ i = 0 /\ bar = None /\ signal = 0
    /\ pc = "idle"
    /\ capital = initial_capital
    /\ position = Zero
    /\ trades = << >>
    /\ current_trade = None
    /\ equity = << >>
    /\ results = None
    /\ bt_pc = "idle"
    /\ bt_capital = Zero
    /\ bt_position = 0
    /\ entry_price = Zero
    /\ entry_date = Unbound
    /\ stop_loss = Zero
    /\ take_profit = Zero
    /\ bt_trades = << >>
    /\ equity_curve = << >>
    /\ self_trades = << >>
    /\ bt_results = None
    /\ df = None /\ data = None

Init == InitRun /\ InitObject /\ InitAnalyzer /\ InitMore

(***************************************************************************)
(* BacktestEngine.run                                                      *)
(***************************************************************************)
\* lines 52-68: reset, take the table and the signals, seed equity[0]
EngineStart ==
    /\ pc = "idle" /\ bt_pc = "idle"
    /\ \E len \in 0..MaxBars, wf \in BOOLEAN, hk \in Hooks, b \in Bars, s \in Signals,
          kind \in SignalKinds :
        LET caller == Ref(TRUE, InputTable(wf))
            \* the example strategies read data['Close'] in generate_signals
            failed == kind = "DataFrame" /\ ~wf
            work == IF failed THEN caller ELSE CombineSignals(kind, caller)
        IN
        /\ n' = len /\ wellFormed' = wf /\ hooks' = hk
        /\ bar' = IF len = 0 THEN None ELSE b
        /\ signal' = IF len = 0 THEN 0 ELSE s
        /\ i' = IF len = 0 THEN 0 ELSE 1
        /\ capital' = initial_capital
        /\ position' = Zero
        /\ trades' = << >>
        /\ current_trade' = None
        /\ df' = CallerAfter(caller, work)
        /\ data' = work
        /\ equity' = IF failed THEN << >>
                     ELSE [k \in 1..len |-> IF k = 1 THEN initial_capital ELSE Zero]
        \* equity[0] = ... on an empty array raises IndexError
        /\ pc' = IF len = 0 \/ failed THEN "raised" ELSE "bar"
    /\ UNCHANGED <<results, strategyVars, restVars>>

\* lines 71-161: one iteration up to the equity update
EngineBar ==
    /\ pc = "bar" /\ i < n
    /\ IF ~wellFormed
       THEN \* data['Close'] raises KeyError, nothing is returned
            /\ pc' = "raised"
            /\ UNCHANGED <<bar, signal, capital, position, trades, current_trade>>
       ELSE \E b \in Bars, s \in Signals :
            LET L == EngineStep(Ledger(capital, position, trades, current_trade),
                                b, s, i, hooks)
            IN  /\ bar' = b /\ signal' = s
                /\ capital' = L.capital
                /\ position' = L.position
                /\ trades' = L.trades
                /\ current_trade' = L.current_trade
                /\ pc' = "mark"
    /\ UNCHANGED <<n, wellFormed, hooks, i, equity, results, strategyVars,
                   tableVars, restVars>>

\* lines 163-165: the equity point of the iteration
EngineMark ==
    /\ pc = "mark"
    /\ equity' = [equity EXCEPT ![i + 1] = MarkToMarket(capital, position, bar)]
    /\ i' = i + 1
    /\ pc' = "bar"
    /\ UNCHANGED <<n, wellFormed, hooks, bar, signal, capital, position, trades,
                   current_trade, results, strategyVars, tableVars, restVars>>

\* lines 167-183: the result dict
EngineReturn ==
    /\ pc = "bar" /\ i >= n
    /\ results' = [equity_curve |-> equity, trades |-> trades,
                   metrics |-> Metrics(equity, trades)]
    /\ pc' = "done"
    /\ UNCHANGED <<inputVars, capital, position, trades, current_trade, equity,
                   strategyVars, tableVars, restVars>>

(***************************************************************************)
(* Strategy.backtest                                                       *)
(***************************************************************************)
BtLocals == Locals(bt_capital, bt_position, entry_price, entry_date,
                   stop_loss, take_profit, bt_trades)

SetLocals(S) ==
    /\ bt_capital' = S.capital
    /\ bt_position' = S.position
    /\ entry_price' = S.entry_price
    /\ entry_date' = S.entry_date
    /\ stop_loss' = S.stop_loss
    /\ take_profit' = S.take_profit
    /\ bt_trades' = S.trades

\* lines 283-298: signals and the initial locals
StrategyStart ==
    /\ pc = "idle" /\ bt_pc = "idle"
    /\ \E len \in 0..MaxBars, wf \in BOOLEAN, b \in Bars, s \in Signals :
        /\ n' = len /\ wellFormed' = wf
        /\ bar' = IF len = 0 THEN None ELSE b
        /\ signal' = IF len = 0 THEN 0 ELSE s
        /\ i' = 1
        /\ LET caller == Ref(TRUE, InputTable(wf))
               work == BtGenerateSignals(caller, wf)
           IN  /\ df' = CallerAfter(caller, work)
               /\ data' = work
    /\ SetLocals(Locals(initial_capital, 0, Zero, Unbound, Zero, Zero, << >>))
    /\ equity_curve' = <<initial_capital>>
    /\ bt_pc' = "loop"
    /\ UNCHANGED <<hooks, self_trades, bt_results, engineVars, restVars>>

\* lines 301-362: read the row, check the open position's stop and target
StrategyExitCheck ==
    /\ bt_pc = "loop" /\ i < n
    /\ IF ~wellFormed
       THEN \* signals_df['close'] raises KeyError, caught at line 433
            /\ bt_pc' = "except"
            /\ UNCHANGED <<bar, signal, bt_capital, bt_position, entry_price,
                           entry_date, stop_loss, take_profit, bt_trades>>
       ELSE \E b \in Bars, s \in Signals :
            /\ bar' = b /\ signal' = s
            /\ SetLocals(BtCheckExit(BtLocals, b, i))
            /\ bt_pc' = "entry"
    /\ UNCHANGED <<n, wellFormed, hooks, i, equity_curve, self_trades, bt_results,
                   engineVars, tableVars, restVars>>

\* lines 364-387: entry check and the equity point of the iteration
StrategyEntry ==
    /\ bt_pc = "entry"
    /\ LET S == BtCheckEntry(BtLocals, bar, signal, i)
       IN  /\ SetLocals(S)
           /\ equity_curve' = Append(equity_curve, BtEquity(S, bar))
    /\ i' = i + 1
    /\ bt_pc' = "loop"
    /\ UNCHANGED <<n, wellFormed, hooks, bar, signal, self_trades, bt_results,
                   engineVars, tableVars, restVars>>

\* lines 389-431: forced close, self.trades, the equity series, the result
StrategyFinish ==
    /\ bt_pc = "loop" /\ i >= n
    /\ IF n = 0
       THEN \* pd.Series of one value over an empty index raises ValueError
            /\ self_trades' = bt_trades
            /\ bt_pc' = "except"
            /\ UNCHANGED <<bt_capital, bt_position, entry_price, entry_date,
                           stop_loss, take_profit, bt_trades, bt_results>>
       ELSE LET S == BtForceClose(BtLocals, bar, n - 1)
            IN  /\ SetLocals(S)
                /\ self_trades' = S.trades
                /\ bt_results' = [trades |-> S.trades, equity_curve |-> equity_curve]
                /\ bt_pc' = "done"
    /\ UNCHANGED <<inputVars, equity_curve, engineVars, tableVars, restVars>>

\* lines 433-448: the except branch
StrategyExcept ==
    /\ bt_pc = "except"
    /\ IF n = 0
       THEN \* df.index[0] raises IndexError out of the handler
            /\ bt_pc' = "raised"
            /\ UNCHANGED bt_results
       ELSE /\ bt_results' = Fallback
            /\ bt_pc' = "done"
    /\ UNCHANGED <<inputVars, bt_capital, bt_position, entry_price, entry_date,
                   stop_loss, take_profit, bt_trades, equity_curve, self_trades,
                   engineVars, tableVars, restVars>>

Next ==
    \/ EngineStart
    \/ EngineBar
    \/ EngineMark
    \/ EngineReturn
    \/ StrategyStart
    \/ StrategyExitCheck
    \/ StrategyEntry
    \/ StrategyFinish
    \/ StrategyExcept

Spec == Init /\ [][Next]_vars

(***************************************************************************)
(* The metric functions, applied to an equity curve                        *)
(***************************************************************************)
\* longest equity curve handed to the metric functions
MaxCurveLen == 4

\* equity levels of the curves
Levels == {80, 90, 100, 110}

\* curves that start at the initial capital
Curves ==
    UNION {[1..len -> {R(v) : v \in Levels}] : len \in 1..MaxCurveLen}

RMax(a, b) == IF RLeq(a, b) THEN b ELSE a
RMin(a, b) == IF RLeq(a, b) THEN a ELSE b

RECURSIVE MaxUpTo(_, _)
MaxUpTo(seq, k) == IF k = 1 THEN seq[1] ELSE RMax(MaxUpTo(seq, k - 1), seq[k])

RECURSIVE MinUpTo(_, _)
MinUpTo(seq, k) == IF k = 1 THEN seq[1] ELSE RMin(MinUpTo(seq, k - 1), seq[k])

RECURSIVE ProdUpTo(_, _)
ProdUpTo(seq, k) == IF k = 1 THEN seq[1] ELSE RMul(ProdUpTo(seq, k - 1), seq[k])

\* Series.cummax(), Series.cumprod(), Series.min()
CumMax(seq) == [k \in 1..Len(seq) |-> MaxUpTo(seq, k)]
CumProd(seq) == [k \in 1..Len(seq) |-> ProdUpTo(seq, k)]
SeriesMin(seq) == MinUpTo(seq, Len(seq))

\* (series / series.cummax()) - 1
Drawdowns(seq) == [k \in 1..Len(seq) |-> RSub(RDiv(seq[k], CumMax(seq)[k]), One)]

\* backtest_engine.py lines 221-224
EngineMaxDrawdown(eq) == SeriesMin(Drawdowns(eq))

\* core/strategy.py lines 131-161
StrategyMaxDrawdown(eq) ==
    LET returns == PctChange(eq)
        cumulative_returns == CumProd([k \in 1..Len(returns) |-> RAdd(One, returns[k])])
    IN  IF Len(returns) = 0 THEN Zero
        ELSE SeriesMin(Drawdowns(cumulative_returns))

InitMetrics ==
    /\ InitRun /\ InitObject /\ InitMore
    /\ curve \in {c \in Curves : c[1] = initial_capital}
    /\ engine_metrics = None
    /\ strategy_metrics = None

\* BacktestEngine._calculate_performance_metrics(curve, data)
EngineMetrics ==
    /\ engine_metrics = None
    /\ engine_metrics' = [max_drawdown |-> EngineMaxDrawdown(curve)]
    /\ UNCHANGED <<inputVars, engineVars, strategyVars, tableVars, objectVars,
                   curve, strategy_metrics, moreVars>>

\* Strategy._calculate_performance_metrics(curve)
StrategyMetrics ==
    /\ strategy_metrics = None
    /\ strategy_metrics' = [max_drawdown |-> StrategyMaxDrawdown(curve)]
    /\ UNCHANGED <<inputVars, engineVars, strategyVars, tableVars, objectVars,
                   curve, engine_metrics, moreVars>>

NextMetrics ==
    \/ EngineMetrics
    \/ StrategyMetrics

SpecMetrics == InitMetrics /\ [][NextMetrics]_vars

(***************************************************************************)
(* Several BacktestEngine.run calls on one engine object                   *)
(***************************************************************************)
\* no other call is between its reset and its return
NoneRunning(c) ==
    \A o \in Calls \ {c} : calls[o].pc \in {"idle", "done", "raised"}

\* the engine's ledger as the loop body reads it through self
SelfLedger ==
    Ledger(engine.capital, engine.position, lists[engine.trades],
           engine.current_trade)

\* lines 52-68 of call c on a table of at most maxlen rows, with a strategy
\* whose hooks are drawn from hookset and the verbose argument drawn from
\* flags; overlap says whether a call may start while
\* another one is running
CallStartLen(c, overlap, maxlen, hookset, flags) ==
    /\ calls[c].pc = "idle"
    /\ \A o \in Calls : o < c => calls[o].pc # "idle"
    /\ overlap \/ NoneRunning(c)
    /\ \E len \in 0..maxlen, hk \in hookset, vb \in flags :
        LET fresh == Reset(engine, lists)
        IN  /\ engine' = fresh.engine
            /\ lists' = fresh.lists
            /\ calls' = [calls EXCEPT ![c] =
                    [pc |-> IF len = 0 THEN "raised" ELSE "bar",
                     n |-> len, hooks |-> hk, verbose |-> vb, i |-> 1,
                     data |-> << >>,
                     equity |-> [k \in 1..len |->
                                    IF k = 1 THEN fresh.engine.capital ELSE Zero],
                     results |-> None]]
    /\ UNCHANGED <<inputVars, engineVars, strategyVars, tableVars, analyzerVars,
                   moreVars>>

\* run(data, strategy) with the default verbose=False
CallStart(c, overlap) == CallStartLen(c, overlap, MaxCallBars, CallHooks, {FALSE})

\* lines 140-141 and 160-161: the print of a protective exit subscripts
\* self.current_trade after it was set to None
VerbosePrintRaises(L, row, sig, verbose) ==
    /\ verbose
    /\ ~BuyCond(sig, L.position)
    /\ ~SellCond(sig, L.position)
    /\ ProtectCond(L.position, L.current_trade)
    /\ StopLossCond(L.current_trade, row) \/ TakeProfitCond(L.current_trade, row)

\* lines 71-161 of call c: one iteration up to the equity update
CallBar(c) ==
    /\ calls[c].pc = "bar" /\ calls[c].i < calls[c].n
    /\ \E b \in CallBars, s \in Signals :
        LET L == EngineStep(SelfLedger, b, s, calls[c].i, calls[c].hooks)
        IN  /\ engine' = [engine EXCEPT !.capital = L.capital,
                                        !.position = L.position,
                                        !.current_trade = L.current_trade]
            /\ lists' = [lists EXCEPT ![engine.trades] = L.trades]
            /\ calls' = [calls EXCEPT
                            ![c].pc = IF VerbosePrintRaises(SelfLedger, b, s,
                                                            calls[c].verbose)
                                      THEN "raised" ELSE "mark",
                            ![c].data = Append(@, [row |-> b, signal |-> s])]
    /\ UNCHANGED <<inputVars, engineVars, strategyVars, tableVars, analyzerVars,
                   moreVars>>

\* lines 163-165 of call c
CallMark(c) ==
    /\ calls[c].pc = "mark"
    /\ calls' = [calls EXCEPT
            ![c].equity[calls[c].i + 1] =
                MarkToMarket(engine.capital, engine.position,
                             calls[c].data[calls[c].i].row),
            ![c].i = @ + 1,
            ![c].pc = "bar"]
    /\ UNCHANGED <<engine, lists>>
    /\ UNCHANGED <<inputVars, engineVars, strategyVars, tableVars, analyzerVars,
                   moreVars>>

\* lines 167-183 of call c: 'trades' is the list object self.trades names;
\* the locals of the call end with it
CallReturn(c) ==
    /\ calls[c].pc = "bar" /\ calls[c].i >= calls[c].n
    /\ calls' = [calls EXCEPT ![c] =
            [IdleCall EXCEPT
                !.pc = "done",
                !.results = [equity_curve |-> calls[c].equity,
                             trades |-> engine.trades,
                             metrics |-> MetricsOf(engine.initial_capital,
                                                   calls[c].equity,
                                                   lists[engine.trades])]]]
    /\ UNCHANGED <<engine, lists>>
    /\ UNCHANGED <<inputVars, engineVars, strategyVars, tableVars, analyzerVars,
                   moreVars>>

\* engine.reset() called by the owner of the engine
CallReset(overlap) ==
    /\ overlap \/ \A c \in Calls : calls[c].pc \in {"idle", "done", "raised"}
    /\ Len(lists) <= Cardinality(Calls) + 1
    /\ engine' = Reset(engine, lists).engine
    /\ lists' = Reset(engine, lists).lists
    /\ UNCHANGED calls
    /\ UNCHANGED <<inputVars, engineVars, strategyVars, tableVars, analyzerVars,
                   moreVars>>

\* one call after the other
NextSequential ==
    \/ \E c \in Calls : CallStart(c, FALSE)
    \/ \E c \in Calls : CallBar(c)
    \/ \E c \in Calls : CallMark(c)
    \/ \E c \in Calls : CallReturn(c)
    \/ CallReset(FALSE)

SpecSequential == Init /\ [][NextSequential]_vars

\* the calls run in threads that are switched between iterations
NextConcurrent ==
    \/ \E c \in Calls : CallStart(c, TRUE)
    \/ \E c \in Calls : CallBar(c)
    \/ \E c \in Calls : CallMark(c)
    \/ \E c \in Calls : CallReturn(c)

SpecConcurrent == Init /\ [][NextConcurrent]_vars

\* an engine constructed with any initial capital the constructor accepts
InitConfig ==
    /\ InitRun /\ InitAnalyzer /\ InitMore
    /\ \E c0 \in InitialCapitals : InitObjectWith(c0)

SpecConfig == InitConfig /\ [][NextSequential]_vars

\* longest table of a single call
MaxLongBars == 4

\* the strategy objects passed to that call
LongHooks == {"base", "absent", "atr"}

\* one run call on a fresh engine, over a longer table, verbose or not
NextLong ==
    \/ CallStartLen(1, FALSE, MaxLongBars, LongHooks, BOOLEAN)
    \/ CallBar(1)
    \/ CallMark(1)
    \/ CallReturn(1)

SpecLong == Init /\ [][NextLong]_vars

(***************************************************************************)
(* Several Strategy.backtest calls on one core Strategy object             *)
(***************************************************************************)
\* the backtest calls made on the object
Backtests == {1, 2}

\* longest table of those calls
MaxBtBars == 3

\* the set_parameter calls the object's user makes
ParamInputs == {<<"sl_pct", R(10)>>, <<"fast_ma", R(5)>>, <<"fast_ma", R(10)>>}

\* Strategy.set_parameter: self.parameters[name] = value
set_parameter(P, name, value) == (name :> value) @@ P

\* Strategy.get_parameter: self.parameters.get(name, None)
get_parameter(P, name) == IF name \in DOMAIN P THEN P[name] ELSE None

\* the dict of zeros returned for an empty return series, by the except
\* branch of the metric function and by the except branch of backtest
ZeroMetrics ==
    [total_return |-> Zero, sharpe_ratio |-> Zero, max_drawdown |-> Zero,
     win_rate |-> Zero, profit_factor |-> Zero]

\* the float annualized_return / volatility for a positive volatility, kept
\* as the term it is computed from
AnnualizedOverVolatility(total_return, returns) ==
    [kind |-> "AnnualizedOverVolatility", total_return |-> total_return,
     returns |-> returns]

\* lines 152-155: annualized_return / volatility if volatility > 0 else 0
StrategySharpe(eq) ==
    LET returns == PctChange(eq)
        total_return == RSub(RDiv(eq[Len(eq)], eq[1]), One)
    IN  IF StdKind(returns) = "positive"
        THEN AnnualizedOverVolatility(total_return, returns)
        ELSE Zero

\* lines 163-173: winners have profit > 0, the loss sums profit < 0
StrategyProfitFactor(tr) ==
    LET total_profit == RSum(SelectSeq(Profits(tr), IsWin))
        total_loss == RAbs(RSum(SelectSeq(Profits(tr), IsStrategyLoss)))
    IN  IF Len(tr) > 0
        THEN IF RLt(Zero, total_loss) THEN RDiv(total_profit, total_loss)
             ELSE Infinity
        ELSE Zero

\* lines 164-165
StrategyWinRate(tr) ==
    IF Len(tr) > 0 THEN Rat(Len(SelectSeq(Profits(tr), IsWin)), Len(tr)) ELSE Zero

\* Strategy._calculate_performance_metrics(equity_series) with self.trades = tr
StrategyPerformance(eq, tr) ==
    IF Len(PctChange(eq)) = 0 THEN ZeroMetrics
    ELSE [total_return |-> RSub(RDiv(eq[Len(eq)], eq[1]), One),
          sharpe_ratio |-> StrategySharpe(eq),
          max_drawdown |-> StrategyMaxDrawdown(eq),
          win_rate |-> StrategyWinRate(tr),
          profit_factor |-> StrategyProfitFactor(tr)]

\* lines 435-448: the dict returned by the except branch
FallbackResult ==
    [trades |-> << >>, equity_curve |-> <<initial_capital>>,
     performance_metrics |-> ZeroMetrics]

\* variant: storing the results also rebuilds self.parameters
StoreResultResetsParameters(St, tr, metrics) ==
    [St EXCEPT !.trades = tr, !.performance_metrics = metrics,
               !.parameters = DefaultParameters]

\* lines 420 and 424: self.trades = trades, self.performance_metrics = ...
StoreResult(St, tr, metrics) ==
    [St EXCEPT !.trades = tr, !.performance_metrics = metrics]

\* the call has returned or raised and its locals are gone
BtEnded(how, res) == [pc |-> how, made |-> bt.made, results |-> res]

\* strategy.set_parameter(name, value) by the object's user, between calls
SetParameter ==
    /\ bt.pc \in {"idle", "returned", "raised"}
    /\ \E in \in ParamInputs :
        /\ strategy' = [strategy EXCEPT
                            !.parameters = set_parameter(@, in[1], in[2])]
        /\ caller_set' = (in[1] :> in[2]) @@ caller_set
    /\ UNCHANGED <<bt, runVars, optimizeVars, cacheVars>>

\* lines 283-299: signals, parameters, initial locals
BtStart ==
    /\ bt.pc \in {"idle", "returned", "raised"}
    /\ bt.made < Cardinality(Backtests)
    /\ \E len \in 0..MaxBtBars, wf \in BOOLEAN :
        bt' = [pc |-> "loop", made |-> bt.made + 1, n |-> len, wellFormed |-> wf,
               i |-> 1, row |-> None, signal |-> 0,
               sl_pct |-> RDiv(get_parameter(strategy.parameters, "sl_pct"), R(100)),
               tp_pct |-> RDiv(get_parameter(strategy.parameters, "tp_pct"), R(100)),
               S |-> Locals(initial_capital, 0, Zero, Unbound, Zero, Zero, << >>),
               equity_curve |-> <<initial_capital>>,
               results |-> None]
    /\ UNCHANGED <<strategy, caller_set, runVars, optimizeVars, cacheVars>>

\* lines 301-362: read the row, check the open position's stop and target
BtExitCheck ==
    /\ bt.pc = "loop" /\ bt.i < bt.n
    /\ IF ~bt.wellFormed
       THEN \* signals_df['close'] raises KeyError, caught at line 433
            bt' = [bt EXCEPT !.pc = "except"]
       ELSE \E b \in CallBars, s \in Signals :
            bt' = [bt EXCEPT !.row = b, !.signal = s,
                             !.S = BtCheckExit(bt.S, b, bt.i),
                             !.pc = "entry"]
    /\ UNCHANGED <<strategy, caller_set, runVars, optimizeVars, cacheVars>>

\* lines 364-387: entry check and the equity point of the iteration
BtEntry ==
    /\ bt.pc = "entry"
    /\ LET S == BtCheckEntryWith(bt.S, bt.row, bt.signal, bt.i, bt.sl_pct, bt.tp_pct)
       IN  bt' = [bt EXCEPT !.S = S,
                            !.equity_curve = Append(@, BtEquity(S, bt.row)),
                            !.i = @ + 1,
                            !.pc = "loop"]
    /\ UNCHANGED <<strategy, caller_set, runVars, optimizeVars, cacheVars>>

\* lines 389-431: forced close, self.trades, self.performance_metrics, result
BtFinish ==
    /\ bt.pc = "loop" /\ bt.i >= bt.n
    /\ IF bt.n = 0
       THEN \* pd.Series of one value over an empty index raises ValueError
            /\ strategy' = [strategy EXCEPT !.trades = bt.S.trades]
            /\ bt' = [bt EXCEPT !.pc = "except"]
       ELSE LET S == BtForceClose(bt.S, bt.row, bt.n - 1)
                metrics == StrategyPerformance(bt.equity_curve, S.trades)
            IN  /\ strategy' = StoreResult(strategy, S.trades, metrics)
                /\ bt' = BtEnded("returned",
                                 [trades |-> S.trades,
                                  equity_curve |-> bt.equity_curve,
                                  performance_metrics |-> metrics])
    /\ UNCHANGED <<caller_set, runVars, optimizeVars, cacheVars>>

\* lines 433-448: the except branch
BtExcept ==
    /\ bt.pc = "except"
    /\ bt' = IF bt.n = 0
             THEN \* df.index[0] raises IndexError out of the handler
                  BtEnded("raised", None)
             ELSE BtEnded("returned", FallbackResult)
    /\ UNCHANGED <<strategy, caller_set, runVars, optimizeVars, cacheVars>>

NextStrategyObject ==
    \/ SetParameter
    \/ BtStart
    \/ BtExitCheck
    \/ BtEntry
    \/ BtFinish
    \/ BtExcept

SpecStrategyObject == Init /\ [][NextStrategyObject]_vars

(***************************************************************************)
(* strategy_base.Strategy.optimize                                         *)
(***************************************************************************)
\* longest value list of the parameter grid
MaxGridValues == 2

\* the key lists of the grids: param_names = list(param_grid.keys())
GridKeyLists == {<< >>, <<"short_window">>, <<"short_window", "long_window">>}

\* the value list of length len of a grid key: window sizes 5, 10, ...
GridList(len) == [j \in 1..len |-> 5 * j]

\* the values backtest_result['metrics'][metric] can take
MetricValues == {R(-5), R(10), Infinity}

\* float('-inf')
NegInfinity == [kind |-> "-inf"]

\* MovingAverageCrossover.__init__: short_window = 20, long_window = 50
ExampleParameters == [short_window |-> 20, long_window |-> 50]

\* a > b on floats that are numbers, inf or -inf
FloatGreater(a, b) ==
    IF a = Infinity THEN b # Infinity
    ELSE IF a = NegInfinity THEN FALSE
    ELSE b = NegInfinity \/ (IsNum(b) /\ RLt(b, a))

\* variant: a later combination with an equal metric replaces the best one
IsBetterOrEqual(value, best) == ~FloatGreater(best, value)

\* line 128: metric_value > best_metric_value
IsBetter(value, best) == FloatGreater(value, best)

\* list(itertools.product(*param_values)) zipped with param_names: the
\* last key varies fastest
Combinations(keys, lens) ==
    IF Len(keys) = 0 THEN <<EmptyDict>>
    ELSE IF Len(keys) = 1
    THEN [k \in 1..lens[1] |-> (keys[1] :> GridList(lens[1])[k])]
    ELSE [k \in 1..(lens[1] * lens[2]) |->
            (keys[1] :> GridList(lens[1])[((k - 1) \div lens[2]) + 1]) @@
            (keys[2] :> GridList(lens[2])[((k - 1) % lens[2]) + 1])]

\* dict.update: the keys of d are overwritten or added
Update(P, d) == d @@ P

\* set_parameters(**kwargs) (lines 66-73)
set_parameters(P, kwargs) == Update(P, kwargs)

\* lines 97-108: the combinations, the empty result list, best = -inf
OptimizeStart ==
    /\ opt.pc = "idle"
    /\ \E keys \in GridKeyLists, lens \in [1..2 -> 0..MaxGridValues] :
        opt' = [pc |-> "loop", keys |-> keys,
                lens |-> [j \in 1..Len(keys) |-> lens[j]],
                combinations |-> Combinations(keys, lens),
                k |-> 1, runs |-> 0, results |-> << >>,
                best_metric_value |-> NegInfinity, best_params |-> None,
                parameters |-> ExampleParameters, returned |-> None]
    /\ UNCHANGED <<runVars, strategyObjVars, cacheVars>>

\* lines 111-130: one combination: set it, run the backtest, keep the result
OptimizeStep ==
    /\ opt.pc = "loop" /\ opt.k <= Len(opt.combinations)
    /\ \E metric_value \in MetricValues :
        LET param_dict == opt.combinations[opt.k]
            better == IsBetter(metric_value, opt.best_metric_value)
        IN  opt' = [opt EXCEPT
                !.parameters = set_parameters(@, param_dict),
                !.runs = @ + 1,
                !.results = Append(@, [params |-> param_dict,
                                       metrics |-> metric_value]),
                !.best_metric_value = IF better THEN metric_value ELSE @,
                !.best_params = IF better THEN param_dict ELSE @,
                !.k = @ + 1]
    /\ UNCHANGED <<runVars, strategyObjVars, cacheVars>>

\* lines 132-136: `if best_params:` is false for None and for {}
OptimizeReturn ==
    /\ opt.pc = "loop" /\ opt.k > Len(opt.combinations)
    /\ opt' = [opt EXCEPT
            !.parameters = IF opt.best_params \notin {None, EmptyDict}
                           THEN set_parameters(@, opt.best_params) ELSE @,
            !.returned = [best_params |-> opt.best_params,
                          best_metric_value |-> opt.best_metric_value,
                          results |-> opt.results],
            !.pc = "done"]
    /\ UNCHANGED <<runVars, strategyObjVars, cacheVars>>

NextOptimize ==
    \/ OptimizeStart
    \/ OptimizeStep
    \/ OptimizeReturn

SpecOptimize == Init /\ [][NextOptimize]_vars

(***************************************************************************)
(* utils/helpers.py: CacheManager                                          *)
(***************************************************************************)
\* latest reading of the clock
MaxClock == 3

\* the max_age_seconds arguments passed to is_cache_valid, in clock units
MaxAges == {1, 2}

\* cache keys, character by character: "a/b", "a_b", "c"
Keys == {<<"a", "/", "b">>, <<"a", "_", "b">>, <<"c">>}

\* cell values and index labels: an int64 number or a timestamp
Num(v) == [int |-> v]
Day(v) == [day |-> v]

\* the tables handed to save_to_cache: a default RangeIndex or a
\* DatetimeIndex, and one column of closes
Frames ==
    {[index |-> [kind |-> "RangeIndex", values |-> <<Num(0), Num(1)>>],
      close |-> <<Num(100), Num(110)>>],
     [index |-> [kind |-> "DatetimeIndex", values |-> <<Day(1)>>],
      close |-> <<Num(102)>>]}

\* the values that occur in those tables
Values == {Num(0), Num(1), Num(100), Num(102), Num(110), Day(1)}

\* str(v) of the index labels and cell values written by to_csv
Repr(v) ==
    IF v = Num(0) THEN "0" ELSE IF v = Num(1) THEN "1"
    ELSE IF v = Num(100) THEN "100" ELSE IF v = Num(102) THEN "102"
    ELSE IF v = Num(110) THEN "110" ELSE "2024-01-01"

\* the value read_csv makes of a field: a number, or with parse_dates a date
Parse(text) == CHOOSE v \in Values : Repr(v) = text

\* df.to_csv(cache_file): a header line, then index label and cells per row
ToCsv(frame) ==
    [header |-> <<"", "close">>,
     lines |-> [k \in 1..Len(frame.close) |->
                    <<Repr(frame.index.values[k]), Repr(frame.close[k])>>]]

\* pd.read_csv(cache_file, index_col=0, parse_dates=True)
ReadCsv(csv) ==
    LET labels == [k \in 1..Len(csv.lines) |-> Parse(csv.lines[k][1])]
    IN  [index |-> [kind |-> IF \A k \in 1..Len(labels) :
                                    DOMAIN labels[k] = {"int"}
                             THEN "Int64Index" ELSE "DatetimeIndex",
                    values |-> labels],
         close |-> [k \in 1..Len(csv.lines) |-> Parse(csv.lines[k][2])]]

\* key.replace('/', '_').replace('\\', '_').replace(':', '_')
SafeKey(key) ==
    [k \in 1..Len(key) |-> IF key[k] \in {"/", "\\", ":"} THEN "_" ELSE key[k]]

\* get_cache_file_path: the file name inside cache_dir
get_cache_file_path(key) == SafeKey(key) \o <<".csv">>

\* os.path.exists(cache_file)
Exists(F, key) == get_cache_file_path(key) \in DOMAIN F

\* is_cache_valid(key, max_age_seconds) at clock reading t
is_cache_valid(F, t, key, max_age) ==
    Exists(F, key) /\ t - F[get_cache_file_path(key)].mtime < max_age

\* get_from_cache(key)
get_from_cache(F, key) ==
    IF Exists(F, key) THEN ReadCsv(F[get_cache_file_path(key)].content) ELSE None

\* the directory without the named files
Remove(F, names) == [f \in DOMAIN F \ names |-> F[f]]

\* what the user of the cache keeps track of: the table last saved under a
\* key and not cleared since, and the keys cleared and not saved since
NoCalls == [op |-> "none", ret |-> None, saved |-> << >>, cleared |-> {}]

InitCacheUse ==
    /\ InitRun /\ InitObject /\ InitAnalyzer /\ InitStrategyObject /\ InitOptimize
    /\ files = << >> /\ now = 0 /\ last = NoCalls

\* save_to_cache(key, df)
SaveToCache ==
    /\ \E key \in Keys, frame \in Frames :
        /\ files' = (get_cache_file_path(key) :>
                        [content |-> ToCsv(frame), mtime |-> now]) @@ files
        /\ last' = [op |-> "save", ret |-> TRUE,
                    saved |-> (key :> [frame |-> frame, at |-> now]) @@ last.saved,
                    cleared |-> last.cleared \ {key}]
    /\ UNCHANGED <<now, runVars, strategyObjVars, optimizeVars>>

\* get_from_cache(key)
GetFromCache ==
    /\ \E key \in Keys :
        last' = [last EXCEPT !.op = "get", !.ret = get_from_cache(files, key)]
    /\ UNCHANGED <<files, now, runVars, strategyObjVars, optimizeVars>>

\* is_cache_valid(key, max_age_seconds)
IsCacheValid ==
    /\ \E key \in Keys, max_age \in MaxAges :
        last' = [last EXCEPT !.op = "valid",
                             !.ret = is_cache_valid(files, now, key, max_age)]
    /\ UNCHANGED <<files, now, runVars, strategyObjVars, optimizeVars>>

\* clear_cache(key)
ClearCacheKey ==
    /\ \E key \in Keys :
        /\ files' = Remove(files, {get_cache_file_path(key)})
        /\ last' = [op |-> "clear", ret |-> TRUE,
                    saved |-> Remove(last.saved, {key}),
                    cleared |-> last.cleared \cup {key}]
    /\ UNCHANGED <<now, runVars, strategyObjVars, optimizeVars>>

\* clear_cache(): every .csv file of the directory is removed
ClearCacheAll ==
    /\ files' = << >>
    /\ last' = [op |-> "clear", ret |-> TRUE, saved |-> << >>,
                cleared |-> last.cleared \cup DOMAIN last.saved]
    /\ UNCHANGED <<now, runVars, strategyObjVars, optimizeVars>>

\* time passes
Tick ==
    /\ now < MaxClock
    /\ now' = now + 1
    /\ UNCHANGED <<files, last, runVars, strategyObjVars, optimizeVars>>

NextCache ==
    \/ SaveToCache
    \/ GetFromCache
    \/ IsCacheValid
    \/ ClearCacheKey
    \/ ClearCacheAll
    \/ Tick

SpecCache == InitCacheUse /\ [][NextCache]_vars

(***************************************************************************)
(* Vocabulary of the properties                                            *)
(***************************************************************************)
Last(seq) == seq[Len(seq)]

\* the exit_reason of a trade dict, "absent" when the key was never written
ReasonOf(t) == IF "exit_reason" \in DOMAIN t THEN t.exit_reason ELSE "absent"

\* the branch chain of an iteration of BacktestEngine.run is taken
EngineBarStep == pc = "bar" /\ pc' = "mark"

\* the exit check of an iteration of Strategy.backtest is taken
StrategyBarStep == bt_pc = "loop" /\ bt_pc' = "entry"

\* any step inside an iteration of Strategy.backtest is taken
StrategyLoopStep == bt_pc \in {"loop", "entry"} /\ bt_pc' \in {"loop", "entry"}

\* the engine holds shares when the iteration starts
Holding == RLt(Zero, position) /\ current_trade # None

\* the iteration appended exactly one trade to the ledger
EngineClosed == Len(trades') = Len(trades) + 1
StrategyClosed == Len(bt_trades') = Len(bt_trades) + 1

(***************************************************************************)
(* C1  No dangling position.  After a completed run no position remains    *)
(* open: the engine holds no shares and no open trade record, and a        *)
(* position that Strategy.backtest still held after the last bar is the    *)
(* last trade of the result, closed with reason end_of_backtest at the     *)
(* last bar's close and the last timestamp.                                *)
(***************************************************************************)
C1_NoDanglingPosition ==
    /\ pc = "done" => /\ position = Zero
                      /\ current_trade = None
    /\ (bt_pc = "done" /\ bt_position # 0) =>
            /\ bt_results.trades # << >>
            /\ Last(bt_results.trades).exit_reason = "end_of_backtest"
            /\ Last(bt_results.trades).exit_price = R(bar.Close)
            /\ Last(bt_results.trades).exit_date = n - 1

(***************************************************************************)
(* C2  Exit priority StopLoss > TakeProfit > Signal.  On a bar with a Sell *)
(* signal on which the open long position's stop-loss condition holds, the *)
(* position is closed with reason stop_loss; when only the take-profit     *)
(* condition holds beside the Sell signal, with reason take_profit.        *)
(***************************************************************************)
C2_ExitPriority ==
    [][ /\ (EngineBarStep /\ Holding /\ signal' = -1
              /\ StopLossCond(current_trade, bar'))
           => (EngineClosed /\ ReasonOf(Last(trades')) = "stop_loss")
        /\ (EngineBarStep /\ Holding /\ signal' = -1
              /\ ~StopLossCond(current_trade, bar')
              /\ TakeProfitCond(current_trade, bar'))
           => (EngineClosed /\ ReasonOf(Last(trades')) = "take_profit")
        /\ (StrategyBarStep /\ bt_position = 1 /\ signal' = -1
              /\ RLeq(R(bar'.Close), stop_loss))
           => (StrategyClosed
               /\ bt_trades'[Len(bt_trades) + 1].exit_reason = "stop_loss")
        /\ (StrategyBarStep /\ bt_position = 1 /\ signal' = -1
              /\ ~RLeq(R(bar'.Close), stop_loss)
              /\ RLeq(take_profit, R(bar'.Close)))
           => (StrategyClosed
               /\ bt_trades'[Len(bt_trades) + 1].exit_reason = "take_profit")
      ]_vars

CommissionInclusive(s, p1, p2) ==
    RSub(RMul(RMul(s, p2), RSub(One, commission)),
         RMul(RMul(s, p1), RAdd(One, commission)))

C4_CommissionSymmetry ==
    [][ /\ (EngineBarStep /\ EngineClosed) =>
              LET t == Last(trades')
              IN  t.profit = CommissionInclusive(t.shares, t.entry_price, t.exit_price)
        /\ (StrategyClosed /\ bt_pc = "loop") =>
              LET t == bt_trades'[Len(bt_trades) + 1]
              IN  t.profit = CommissionInclusive(RDiv(bt_capital, t.entry_price),
                                                 t.entry_price, t.exit_price)
      ]_vars

(***************************************************************************)
(* C5  Exit price follows the exit reason, and one price is used           *)
(* throughout.  A stop_loss exit is booked at the position's stop_loss, a  *)
(* take_profit exit at its take_profit, a signal exit of the engine at the *)
(* bar's close; the exit_price written into the trade is the price from    *)
(* which the amount credited to capital, profit and profit_pct are         *)
(* computed.                                                               *)
(***************************************************************************)
C5_ExitPrice ==
    [][ /\ (EngineBarStep /\ EngineClosed) =>
              LET t == Last(trades')
                  px == t.exit_price
                  credited == RMul(RMul(position, px), RSub(One, commission))
                  paid == RMul(RMul(t.shares, t.entry_price), RAdd(One, commission))
              IN  /\ ReasonOf(t) = "stop_loss" => px = current_trade.stop_loss
                  /\ ReasonOf(t) = "take_profit" => px = current_trade.take_profit
                  /\ ReasonOf(t) = "absent" => (signal' = -1 /\ px = R(bar'.Close))
                  /\ ReasonOf(t) \in {"stop_loss", "take_profit", "absent"}
                  /\ capital' = RAdd(capital, credited)
                  /\ t.profit = RSub(credited, paid)
                  /\ t.profit_pct = RSub(RDiv(px, t.entry_price), One)
        /\ (StrategyBarStep /\ StrategyClosed) =>
              LET t == bt_trades'[Len(bt_trades) + 1]
                  px == t.exit_price
                  ratio == IF t.type = "long" THEN RDiv(px, t.entry_price)
                                              ELSE RDiv(t.entry_price, px)
              IN  /\ t.exit_reason = "stop_loss" => px = stop_loss
                  /\ t.exit_reason = "take_profit" => px = take_profit
                  /\ t.exit_reason \in {"stop_loss", "take_profit"}
                  /\ t.profit = RMul(RSub(ratio, One), bt_capital)
                  /\ bt_capital' = RAdd(bt_capital, t.profit)
      ]_vars

\* the engine has just closed a position on its stop-loss, below the fill
C5_Witness ==
    /\ pc = "mark"
    /\ trades # << >>
    /\ Last(trades).exit_date = i
    /\ ReasonOf(Last(trades)) = "stop_loss"
    /\ Last(trades).exit_price = Last(trades).stop_loss
    /\ RLt(R(bar.Close), Last(trades).exit_price)

(***************************************************************************)
(* C6  Protective exits trigger on the intrabar extremes.  A long position *)
(* is closed with reason stop_loss, at its stop_loss, on every bar whose   *)
(* Low is at or below the stop_loss, also when the Close is above it; when *)
(* the stop is not reached, a bar whose High is at or above take_profit    *)
(* closes it with reason take_profit.  (Opened at 100 with stop 95 and     *)
(* target 110, the bar Low 90 / High 112 / Close 108 with a Sell signal    *)
(* closes at 95 with reason stop_loss.)                                    *)
(***************************************************************************)
C6_IntrabarTriggers ==
    [][ /\ (EngineBarStep /\ Holding /\ IsNum(current_trade.stop_loss)
              /\ RLeq(R(bar'.Low), current_trade.stop_loss))
           => /\ EngineClosed
              /\ ReasonOf(Last(trades')) = "stop_loss"
              /\ Last(trades').exit_price = current_trade.stop_loss
        /\ (EngineBarStep /\ Holding /\ IsNum(current_trade.stop_loss)
              /\ IsNum(current_trade.take_profit)
              /\ ~RLeq(R(bar'.Low), current_trade.stop_loss)
              /\ RLeq(current_trade.take_profit, R(bar'.High)))
           => /\ EngineClosed
              /\ ReasonOf(Last(trades')) = "take_profit"
              /\ Last(trades').exit_price = current_trade.take_profit
        /\ (StrategyBarStep /\ bt_position = 1 /\ RLeq(R(bar'.Low), stop_loss))
           => /\ StrategyClosed
              /\ bt_trades'[Len(bt_trades) + 1].exit_reason = "stop_loss"
              /\ bt_trades'[Len(bt_trades) + 1].exit_price = stop_loss
        /\ (StrategyBarStep /\ bt_position = 1 /\ ~RLeq(R(bar'.Low), stop_loss)
              /\ RLeq(take_profit, R(bar'.High)))
           => /\ StrategyClosed
              /\ bt_trades'[Len(bt_trades) + 1].exit_reason = "take_profit"
              /\ bt_trades'[Len(bt_trades) + 1].exit_price = take_profit
      ]_vars

(***************************************************************************)
(* C7  A Sell signal closes the open long position on the same bar.  When  *)
(* a long position is open, the bar carries a Sell signal and the bar      *)
(* reaches neither the stop-loss nor the take-profit, the position is      *)
(* closed at the bar's close, one trade is appended and the simulator is   *)
(* flat afterwards.                                                        *)
(***************************************************************************)
C7_SellCloses ==
    [][ /\ (EngineBarStep /\ Holding /\ signal' = -1
              /\ ~StopLossCond(current_trade, bar')
              /\ ~TakeProfitCond(current_trade, bar'))
           => /\ EngineClosed
              /\ Last(trades').exit_price = R(bar'.Close)
              /\ Last(trades').exit_date = i
              /\ position' = Zero
              /\ current_trade' = None
        /\ (StrategyBarStep /\ bt_position = 1 /\ signal' = -1
              /\ RLt(stop_loss, R(bar'.Low))
              /\ RLt(R(bar'.High), take_profit))
           => /\ StrategyClosed
              /\ bt_trades'[Len(bt_trades) + 1].exit_price = R(bar'.Close)
              /\ bt_trades'[Len(bt_trades) + 1].exit_date = i
              /\ bt_position' = 0
      ]_vars

(***************************************************************************)
(* C8  Capital conservation.  A run that returns an empty trade list       *)
(* returns final_capital == initial_capital and an equity curve all of     *)
(* whose points equal initial_capital.                                     *)
(***************************************************************************)
C8_CapitalConservation ==
    /\ (pc = "done" /\ results.trades = << >>) =>
            /\ results.metrics.final_capital = initial_capital
            /\ \A k \in 1..Len(results.equity_curve) :
                    results.equity_curve[k] = initial_capital
    /\ (bt_pc = "done" /\ bt_results.trades = << >>) =>
            \A k \in 1..Len(bt_results.equity_curve) :
                    bt_results.equity_curve[k] = initial_capital

(***************************************************************************)
(* C9  Equity curve length.  Every result returned by BacktestEngine.run   *)
(* or by Strategy.backtest has an equity curve with exactly one point per  *)
(* row of the input table, also when the simulation failed internally.     *)
(***************************************************************************)
C9_EquityLength ==
    /\ pc = "done" => Len(results.equity_curve) = n
    /\ bt_pc = "done" => Len(bt_results.equity_curve) = n

(***************************************************************************)
(* C10  Mark to market.  The first equity point of an engine run is        *)
(* initial_capital; the point written for a bar is capital plus shares     *)
(* held times that bar's close (capital alone when flat) as they stand at  *)
(* the end of the bar's processing; writing the point changes neither      *)
(* capital nor position nor the open trade nor the ledger, and no point    *)
(* written earlier.                                                        *)
(***************************************************************************)
C10_MarkToMarket ==
    /\ []((pc \in {"bar", "mark", "done"}) => equity[1] = initial_capital)
    /\ []((pc = "bar" /\ i >= 2) =>
            equity[i] = IF position = Zero
                        THEN capital
                        ELSE RAdd(capital, RMul(position, R(bar.Close))))
    /\ [][ (pc = "mark") =>
              /\ UNCHANGED <<capital, position, current_trade, trades>>
              /\ Len(equity') = Len(equity)
              /\ \A k \in 1..i : equity'[k] = equity[k]
         ]_vars

\* a point has been written while shares are held at a close other than the
\* entry price
C10_Witness ==
    /\ pc = "bar" /\ i >= 2
    /\ RLt(Zero, position)
    /\ current_trade # None
    /\ current_trade.entry_price # R(bar.Close)
    /\ equity[i] = RAdd(capital, RMul(position, R(bar.Close)))

C14_InvalidInputRejected ==
    /\ pc = "done" => n >= 2
    /\ bt_pc = "done" => n >= 2
    /\ (n < 2 /\ pc # "idle") =>
            /\ results = None
            /\ equity = << >>
            /\ capital = initial_capital /\ position = Zero
            /\ trades = << >> /\ current_trade = None
    /\ (n < 2 /\ bt_pc \in {"done", "raised"}) =>
            /\ bt_results = None
            /\ self_trades = << >>

(***************************************************************************)
(* C16  Short positions are unreachable.  For every signal sequence over   *)
(* Buy, Sell and Hold, Strategy.backtest never holds a short position:     *)
(* position is never -1 and no trade of type short is ever recorded.       *)
(***************************************************************************)
C16_NoShort ==
    /\ bt_position # -1
    /\ \A k \in 1..Len(bt_trades) : bt_trades[k].type # "short"
    /\ bt_results # None =>
            \A k \in 1..Len(bt_results.trades) : bt_results.trades[k].type # "short"

(***************************************************************************)
(* C17  Complete trade records.  Every trade of a returned ledger carries  *)
(* entry and exit date, entry and exit price, profit and an exit_reason    *)
(* that is one of signal, stop_loss, take_profit, end_of_backtest; this    *)
(* holds for trades closed by a Sell signal as for protective exits.       *)
(***************************************************************************)
ExitReasons == {"signal", "stop_loss", "take_profit", "end_of_backtest"}

CompleteTrade(t) ==
    /\ {"entry_date", "exit_date", "entry_price", "exit_price", "profit",
        "exit_reason"} \subseteq DOMAIN t
    /\ t.exit_reason \in ExitReasons

C17_CompleteTrades ==
    /\ pc = "done" =>
            \A k \in 1..Len(results.trades) : CompleteTrade(results.trades[k])
    /\ bt_pc = "done" =>
            \A k \in 1..Len(bt_results.trades) : CompleteTrade(bt_results.trades[k])

(***************************************************************************)
(* C19  The caller's table is not mutated.  From the call of               *)
(* BacktestEngine.run or Strategy.backtest on, and so after it returns,    *)
(* the caller's table has the columns and the values it was passed with:   *)
(* no Signal or indicator column is added, whether the strategy hands      *)
(* back a signal Series or a full table.                                   *)
(***************************************************************************)
C19_InputUntouched ==
    (pc # "idle" \/ bt_pc # "idle") =>
        /\ df = InputTable(wellFormed)
        /\ DOMAIN df \subseteq BaseColumns

\* an engine run over a signal Series has returned: its working table has
\* the Signal column, the caller's table has not
C19_Witness ==
    /\ pc = "done"
    /\ ~data.shared
    /\ DOMAIN data.columns = BaseColumns \cup {"Signal"}
    /\ results.trades # << >>
    /\ "Signal" \notin DOMAIN df

(***************************************************************************)
(* C20  Max drawdown.  The reported max_drawdown is the minimum over all   *)
(* t of equity[t] / max(equity[0..t]) - 1, the running maximum taking in   *)
(* the first point and the point at t; it is never above 0.  This holds    *)
(* for the engine's metrics and for Strategy._calculate_performance_       *)
(* metrics on the same equity curve.                                       *)
(***************************************************************************)
PeakUpTo(eq, t) ==
    CHOOSE m \in {eq[k] : k \in 1..t} : \A k \in 1..t : RLeq(eq[k], m)

DrawdownAt(eq, t) == RSub(RDiv(eq[t], PeakUpTo(eq, t)), One)

IsMaxDrawdown(dd, eq) ==
    /\ \A t \in 1..Len(eq) : RLeq(dd, DrawdownAt(eq, t))
    /\ \E t \in 1..Len(eq) : dd = DrawdownAt(eq, t)
    /\ RLeq(dd, Zero)

C20_MaxDrawdown ==
    /\ engine_metrics # None => IsMaxDrawdown(engine_metrics.max_drawdown, curve)
    /\ strategy_metrics # None => IsMaxDrawdown(strategy_metrics.max_drawdown, curve)

(***************************************************************************)
(* What a run call returns when it is the only call ever made on a new     *)
(* engine: the loop body folded over the rows of the table                 *)
(***************************************************************************)
RECURSIVE AloneLedger(_, _, _, _)
AloneLedger(rows, k, hk, c0) ==
    IF k = 0 THEN Ledger(c0, Zero, << >>, None)
    ELSE EngineStep(AloneLedger(rows, k - 1, hk, c0),
                    rows[k].row, rows[k].signal, k, hk)

AloneEquity(rows, len, hk, c0) ==
    [k \in 1..len |->
        IF k = 1 THEN c0
        ELSE LET L == AloneLedger(rows, k - 1, hk, c0)
             IN  MarkToMarket(L.capital, L.position, rows[k - 1].row)]

\* call c returns in this step
CallReturned(c) == calls[c].pc = "bar" /\ calls'[c].pc = "done"

\* the result that call c returns in this step is the result of the same
\* call alone
ReturnsAsAlone(c) ==
    LET f == calls[c]
        c0 == engine.initial_capital
        eq == AloneEquity(f.data, f.n, f.hooks, c0)
        tr == AloneLedger(f.data, f.n - 1, f.hooks, c0).trades
    IN  /\ calls'[c].results.equity_curve = eq
        /\ lists'[calls'[c].results.trades] = tr
        /\ calls'[c].results.metrics = MetricsOf(c0, eq, tr)

\* call c is entered in this step
CallEntered(c) == calls[c].pc = "idle" /\ calls'[c].pc # "idle"

(***************************************************************************)
(* C12  Deterministic runs from a clean state.  A run call made on an      *)
(* engine that has completed earlier runs, also ones that ended with a     *)
(* position held, or that was reset by its owner, returns the trades, the  *)
(* equity curve and the metrics that the same call returns on a new        *)
(* engine; entering run leaves no capital, shares, open trade or trade     *)
(* record of an earlier run in the engine.                                 *)
(***************************************************************************)
C12_Deterministic ==
    /\ [][\A c \in Calls : CallReturned(c) => ReturnsAsAlone(c)]_vars
    /\ [][ \A c \in Calls : CallEntered(c) =>
              /\ engine'.capital = engine.initial_capital
              /\ engine'.initial_capital = engine.initial_capital
              /\ engine'.position = Zero
              /\ engine'.current_trade = None
              /\ lists'[engine'.trades] = << >>
         ]_vars

\* a call has returned a trade after an earlier call on the same engine
\* returned with its position still held
C12_Witness ==
    \E c, o \in Calls :
        /\ calls[c].pc = "done" /\ calls[o].pc = "done"
        /\ calls[o].results.trades < calls[c].results.trades
        \* shares were bought and never sold
        /\ lists[calls[o].results.trades] = << >>
        /\ Last(calls[o].results.equity_curve) # engine.initial_capital
        /\ lists[calls[c].results.trades] # << >>

(***************************************************************************)
(* C13  Concurrent runs share no mutable state.  When the iterations of    *)
(* two run calls on one engine object interleave, each call returns the    *)
(* trades, the equity curve and the metrics it returns when it is          *)
(* executed alone.                                                         *)
(***************************************************************************)
C13_Isolation ==
    [][\A c \in Calls : CallReturned(c) => ReturnsAsAlone(c)]_vars

(***************************************************************************)
(* C15  Opening a position fails without capital.  When an entry is        *)
(* attempted while the capital is <= 0 or the computed share count is      *)
(* <= 0, the call fails with an error: no position is opened, no open      *)
(* trade record is created and capital is left unchanged.                  *)
(***************************************************************************)
C15_OpenFails ==
    [][ \A c \in Calls :
          (/\ calls[c].pc = "bar" /\ calls'[c].pc # "bar"
           /\ Len(calls'[c].data) = Len(calls[c].data) + 1
           /\ BuyCond(Last(calls'[c].data).signal, engine.position)
           /\ \/ RLeq(engine.capital, Zero)
              \/ RLeq(CalculatePositionSize(engine.capital,
                                            Last(calls'[c].data).row.Close), Zero))
          => /\ calls'[c].pc = "raised"
             /\ engine' = engine
             /\ lists' = lists
      ]_vars

(***************************************************************************)
(* C18  Returned results are immutable.  After run has returned, no later  *)
(* run or reset call on the same engine changes the returned result: its   *)
(* trade list keeps its length and every trade keeps its fields, its       *)
(* equity curve keeps its points; and a trade is never modified once it    *)
(* has been appended to a ledger.                                          *)
(***************************************************************************)
C18_ResultsImmutable ==
    [][ /\ \A c \in Calls : calls[c].pc = "done" =>
              /\ calls'[c].results = calls[c].results
              /\ lists'[calls[c].results.trades] = lists[calls[c].results.trades]
        /\ \A k \in 1..Len(lists) : \A j \in 1..Len(lists[k]) :
              /\ Len(lists'[k]) >= j
              /\ lists'[k][j] = lists[k][j]
      ]_vars

\* a result with a trade was returned, then a later call returned another
\* ledger and the owner reset the engine
C18_Witness ==
    \E c, o \in Calls :
        /\ calls[o].pc = "done" /\ calls[c].pc = "done"
        /\ calls[o].results.trades < calls[c].results.trades
        /\ calls[c].results.trades < engine.trades
        /\ lists[calls[o].results.trades] # << >>
        /\ lists[calls[c].results.trades] # lists[calls[o].results.trades]

(***************************************************************************)
(* C26  Accounting identity.  At every bar of an engine run at which no    *)
(* position is open, capital is initial_capital plus the sum of profit     *)
(* over the trades recorded so far; a run that ends flat returns a last    *)
(* equity point that exceeds initial_capital by the total recorded         *)
(* profit.                                                                 *)
(***************************************************************************)
RECURSIVE SumProfit(_)
SumProfit(tr) ==
    IF tr = << >> THEN Zero
    ELSE RAdd(SumProfit(SubSeq(tr, 1, Len(tr) - 1)), tr[Len(tr)].profit)

C26_AccountingIdentity ==
    /\ (pc \in {"bar", "mark", "done"} /\ position = Zero) =>
            capital = RAdd(initial_capital, SumProfit(trades))
    /\ (pc = "done" /\ position = Zero) =>
            RSub(Last(results.equity_curve), initial_capital)
                = SumProfit(results.trades)

\* a run has returned flat with a winning trade in its ledger
C26_Witness ==
    /\ pc = "done" /\ position = Zero
    /\ \E k \in 1..Len(results.trades) : RLt(Zero, results.trades[k].profit)
    /\ RLt(initial_capital, Last(results.equity_curve))

(***************************************************************************)
(* C27, C29: one run call over a longer table                              *)
(***************************************************************************)
\* the ledger and the open trade of the engine object
EngineTrades == lists[engine.trades]

\* call c runs one iteration of the loop (lines 71-161)
CallBarStep(c) == calls[c].pc = "bar" /\ calls'[c].pc \in {"mark", "raised"}

\* C27: in BacktestEngine.run no iteration both closes and opens a position,
\* a trade closes on a later bar than it was opened on, the first bar
\* (index 0) never opens a trade, and the recorded trades are chronological
\* without overlap: entry_date(k) < exit_date(k) < entry_date(k+1), also
\* for the position still open after the last recorded trade.
C27_Chronological ==
    /\ [](/\ \A k \in 1..Len(EngineTrades) :
                /\ EngineTrades[k].entry_date >= 1
                /\ EngineTrades[k].entry_date < EngineTrades[k].exit_date
          /\ \A k \in 1..(Len(EngineTrades) - 1) :
                EngineTrades[k].exit_date < EngineTrades[k + 1].entry_date
          /\ engine.current_trade # None =>
                /\ engine.current_trade.entry_date >= 1
                /\ EngineTrades # << >> =>
                     Last(EngineTrades).exit_date < engine.current_trade.entry_date)
    /\ [][CallBarStep(1) =>
            /\ Len(EngineTrades') > Len(EngineTrades) =>
                    /\ engine'.current_trade = None
                    /\ engine.current_trade.entry_date < calls[1].i
            /\ (engine.current_trade = None /\ engine'.current_trade # None) =>
                    EngineTrades' = EngineTrades]_vars

\* a run that closed a trade by a protective exit and opened the next
\* position on the bar after that exit
C27_Witness ==
    /\ calls[1].pc \in {"bar", "mark"}
    /\ Len(EngineTrades) = 1
    /\ "exit_reason" \in DOMAIN EngineTrades[1]
    /\ engine.current_trade # None
    /\ EngineTrades[1].exit_date + 1 = engine.current_trade.entry_date

\* C29: run(data, strategy, verbose=True) completes without raising: no
\* iteration of a verbose call ends in an exception.
C29_VerboseCompletes ==
    [][\A c \in Calls :
          (calls[c].verbose /\ CallBarStep(c)) => calls'[c].pc # "raised"]_vars

(***************************************************************************)
(* C30: bars without a transition                                          *)
(***************************************************************************)
\* the row and the signal that the iteration just run by call c has read
RowRead(c) == Last(calls'[c].data).row
SignalRead(c) == Last(calls'[c].data).signal

\* a protective level that is absent, undefined, or not reached by the close
StopNotReached(trade, row) ==
    trade.stop_loss = None \/ trade.stop_loss = NaN
        \/ RLt(trade.stop_loss, R(row.Close))
TakeNotReached(trade, row) ==
    trade.take_profit = None \/ trade.take_profit = NaN
        \/ RLt(R(row.Close), trade.take_profit)

\* the bar read by call c triggers no transition
NoTransition(c) ==
    \/ SignalRead(c) \in {0, -1} /\ engine.position = Zero
    \/ /\ SignalRead(c) = 0
       /\ RLt(Zero, engine.position) /\ engine.current_trade # None
       /\ StopNotReached(engine.current_trade, RowRead(c))
       /\ TakeNotReached(engine.current_trade, RowRead(c))

\* C30: in BacktestEngine.run a bar that triggers no transition (Hold or
\* Sell while flat, Hold in a position whose stop-loss and take-profit are
\* absent, undefined or not reached) leaves capital, shares, the open trade
\* and the trade list unchanged; of the call's locals only the equity entry
\* of that bar and the loop index change.
C30_NoTransitionFrame ==
    [][\A c \in Calls :
          /\ (CallBarStep(c) /\ NoTransition(c)) =>
                /\ engine' = engine
                /\ lists' = lists
                /\ calls'[c] = [calls[c] EXCEPT !.pc = "mark",
                                                !.data = calls'[c].data]
          /\ (calls[c].pc = "mark" /\ calls'[c].pc = "bar") =>
                /\ engine' = engine
                /\ lists' = lists
                /\ \A k \in 1..calls[c].n :
                        k # calls[c].i + 1 => calls'[c].equity[k] = calls[c].equity[k]
                /\ calls'[c].equity[calls[c].i + 1] =
                        RAdd(engine.capital,
                             RMul(engine.position, R(Last(calls[c].data).row.Close)))]_vars

\* a Hold bar just run in a position that was opened on an earlier bar and
\* whose protective levels are undefined
C30_Witness ==
    /\ calls[1].pc = "mark"
    /\ Last(calls[1].data).signal = 0
    /\ engine.current_trade # None
    /\ engine.current_trade.entry_date < calls[1].i
    /\ engine.current_trade.stop_loss = NaN
    /\ Len(EngineTrades) = 0

(***************************************************************************)
(* C21: the Sharpe ratio of degenerate curves                              *)
(***************************************************************************)
\* every row the call has read closes at the same price
ConstantClose(rows) ==
    \A k \in 1..Len(rows) : rows[k].row.Close = rows[1].row.Close

\* no row the call has read carries a Buy signal
NoBuySignal(rows) == \A k \in 1..Len(rows) : rows[k].signal # 1

\* fewer than two returns, or returns that are all the same number
Degenerate(returns) ==
    Len(returns) < 2 \/ \A k \in 1..Len(returns) : returns[k] = returns[1]

\* the reported value is the number 0
SharpeIsZero(v) ==
    IF IsNum(v) THEN v = Zero
    ELSE v.kind = "MeanOverStd" /\ RSum(v.returns) = Zero

BtReturns == bt.pc \notin {"returned", "raised"} /\ bt'.pc = "returned"

\* some trade of the ledger has a positive profit
HasWinner(tr) == \E k \in 1..Len(tr) : RLt(Zero, tr[k].profit)

\* sum of the positive profits and sum of the negative profits of a ledger
RECURSIVE SumWins(_)
SumWins(tr) ==
    IF tr = << >> THEN Zero
    ELSE RAdd(IF RLt(Zero, tr[1].profit) THEN tr[1].profit ELSE Zero,
              SumWins(Tail(tr)))
RECURSIVE SumLosses(_)
SumLosses(tr) ==
    IF tr = << >> THEN Zero
    ELSE RAdd(IF RLt(tr[1].profit, Zero) THEN tr[1].profit ELSE Zero,
              SumLosses(Tail(tr)))

\* C22: the profit_factor reported with a ledger is the sum of the winning
\* profits over the absolute sum of the losing profits; it is +infinity
\* when there are winners and the losing sum is zero, 0 when the ledger is
\* empty, and not +infinity for a non-empty ledger without a winner.
C22_ProfitFactor ==
    (bt.pc = "returned" /\ bt.results # FallbackResult) =>
        LET tr == bt.results.trades
            pf == bt.results.performance_metrics.profit_factor
        IN  /\ tr = << >> => pf = Zero
            /\ (tr # << >> /\ SumLosses(tr) # Zero) =>
                    pf = RDiv(SumWins(tr), RNeg(SumLosses(tr)))
            /\ (HasWinner(tr) /\ SumLosses(tr) = Zero) => pf = Infinity
            /\ (tr # << >> /\ ~HasWinner(tr)) => pf # Infinity

\* C23: when a Strategy.backtest call returns, get_trades() and
\* get_performance_metrics() give the trades and the performance_metrics
\* of the returned result, for first and later calls, failed ones included.
C23_GettersMatchResult ==
    [][BtReturns =>
          /\ strategy'.trades = bt'.results.trades
          /\ strategy'.performance_metrics = bt'.results.performance_metrics]_vars

\* C24: whatever backtests have run, get_parameter(name) is the value last
\* passed to set_parameter for name, the default for a name never set, and
\* None for a name that is neither.
C24_ParametersKept ==
    /\ \A name \in DOMAIN DefaultParameters \cup DOMAIN caller_set :
          get_parameter(strategy.parameters, name) =
              IF name \in DOMAIN caller_set THEN caller_set[name]
              ELSE DefaultParameters[name]
    /\ DOMAIN strategy.parameters = DOMAIN DefaultParameters \cup DOMAIN caller_set

\* two parameters were set, then two backtests returned, one with trades
C24_Witness ==
    /\ bt.pc = "returned" /\ bt.made = 2
    /\ DOMAIN caller_set = {"sl_pct", "fast_ma"}
    /\ caller_set["fast_ma"] = R(5)
    /\ strategy.trades # << >>
    /\ strategy.parameters["sl_pct"] = R(10)
    /\ strategy.parameters["tp_pct"] = R(4)

(***************************************************************************)
(* C28: Strategy.optimize                                                  *)
(***************************************************************************)
\* the number of combinations of the grid that optimize was called with
GridSize ==
    IF Len(opt.keys) = 0 THEN 1
    ELSE IF Len(opt.keys) = 1 THEN opt.lens[1]
    ELSE opt.lens[1] * opt.lens[2]

\* result k is the first one whose metric no other result exceeds
FirstMaximal(res, k) ==
    /\ \A j \in 1..Len(res) : ~FloatGreater(res[j].metrics, res[k].metrics)
    /\ \A j \in 1..(k - 1) : res[j].metrics # res[k].metrics

\* C28: optimize runs one backtest per grid combination and returns their
\* results in grid order (last key fastest); the returned best parameters
\* and value are those of the first result with the maximal metric; on
\* return self.parameters agrees with the best combination on every grid
\* key.
C28_Optimize ==
    opt.pc = "done" =>
        LET res == opt.returned.results
        IN  /\ opt.runs = GridSize /\ Len(res) = GridSize
            /\ Len(opt.keys) = 1 =>
                  \A a \in 1..opt.lens[1] :
                      res[a].params = ("short_window" :> 5 * a)
            /\ Len(opt.keys) = 2 =>
                  \A a \in 1..opt.lens[1], b \in 1..opt.lens[2] :
                      res[(a - 1) * opt.lens[2] + b].params =
                          [short_window |-> 5 * a, long_window |-> 5 * b]
            /\ GridSize > 0 =>
                  \E k \in 1..Len(res) :
                      /\ FirstMaximal(res, k)
                      /\ opt.returned.best_params = res[k].params
                      /\ opt.returned.best_metric_value = res[k].metrics
                      /\ \A key \in DOMAIN res[k].params :
                            opt.parameters[key] = res[k].params[key]
            /\ \A key \in DOMAIN ExampleParameters :
                  key \notin {opt.keys[j] : j \in 1..Len(opt.keys)}
                      => opt.parameters[key] = ExampleParameters[key]

\* a grid of four combinations in which the second and the fourth share the
\* maximal metric: the best one returned is the second, not the last tried
C28_Witness ==
    /\ opt.pc = "done"
    /\ Len(opt.returned.results) = 4
    /\ opt.returned.results[2].metrics = R(10)
    /\ opt.returned.results[4].metrics = R(10)
    /\ opt.returned.results[1].metrics = R(-5)
    /\ opt.returned.results[3].metrics = R(-5)
    /\ opt.parameters = [short_window |-> 5, long_window |-> 10]

(***************************************************************************)
(* C25: the cache round trip                                               *)
(***************************************************************************)
\* the rows of a table: index label and cell of every row
Rows(frame) ==
    [k \in 1..Len(frame.close) |-> <<frame.index.values[k], frame.close[k]>>]

\* C25: a table saved under a key and not cleared since (by clear_cache(key)
\* or clear_cache()) is valid while younger than max_age and is returned
\* row for row by get_from_cache(key), whatever was saved or cleared under
\* other keys; a key cleared and not saved since has no entry and is not
\* valid; clear_cache returns True.
C25_RoundTrip ==
    /\ \A key \in DOMAIN last.saved :
          /\ \A max_age \in MaxAges :
                now - last.saved[key].at < max_age =>
                    is_cache_valid(files, now, key, max_age)
          /\ get_from_cache(files, key) # None
          /\ Rows(get_from_cache(files, key)) = Rows(last.saved[key].frame)
    /\ \A key \in last.cleared :
          /\ get_from_cache(files, key) = None
          /\ \A max_age \in MaxAges : ~is_cache_valid(files, now, key, max_age)
    /\ last.op = "clear" => last.ret = TRUE

====
